---- MODULE Spec2Model ----
(***************************************************************************)
(* Model of src/ex2/nexus_pipeline.py: processing stages, the pipeline     *)
(* base class with its execution statistics, the three data adapters and   *)
(* the NexusManager registry / chain.  LogProcessor of                     *)
(* src/ex0/stream_processor.py is used as a duck-typed fourth stage.       *)
(*                                                                         *)
(* Python values are tagged records.  A str is a sequence of tokens: a     *)
(* token is either a white-space character ("\n", " ") or a word without   *)
(* white space.  print() output is not part of the state; the exceptions   *)
(* that building the printed text can raise are modelled.                  *)
(***************************************************************************)
EXTENDS Integers, Sequences, FiniteSets, TLC

\* ------------------------------------------------------------------ bounds
\* top-level calls that process data, per run
MaxCalls == 2
\* stages over all pipelines of a run (each starts with three)
MaxStages == 10
\* length of a chain plan
MaxChain == 3
\* length of a stage list handed to the constructor
MaxCustom == 1

\* ------------------------------------------------------------ Python values
None == [t |-> "none"]
Num(n) == [t |-> "num", n |-> n]
Bool(b) == [t |-> "bool", b |-> b]
Str(s) == [t |-> "str", s |-> s]
List(l) == [t |-> "list", l |-> l]
Dict(d) == [t |-> "dict", d |-> d]

EmptyMap == [k \in {} |-> None]

IsDict(v) == v.t = "dict"
IsStr(v) == v.t = "str"

NL == "\n"
SP == " "

\* dict.get(key, default)
Get(v, key, default) == IF key \in DOMAIN v.d THEN v.d[key] ELSE default

\* new = dict(d); new[key] = val
SetItem(d, key, val) == [k \in (DOMAIN d) \cup {key} |-> IF k = key THEN val ELSE d[k]]

\* Outcome of a call that either returns a value or raises an Exception.
Return(v) == [ok |-> TRUE, v |-> v]
Raise == [ok |-> FALSE, v |-> None]

\* ------------------------------------------------------------------ stages
InputStageProcess(data) ==
    IF data = None THEN Raise ELSE Return(data)

\* Mutant: the enriched mapping is built empty instead of from dict(data).
TransformStageProcess_fresh(data) ==
    IF IsDict(data)
    THEN Return(Dict(SetItem(EmptyMap, "_metadata", Str(<<"enriched">>))))
    ELSE Return(data)

TransformStageProcess(data) ==
    IF IsDict(data)
    THEN Return(Dict(SetItem(data.d, "_metadata", Str(<<"enriched">>))))
    ELSE Return(data)

OutputStageProcess(data) == Return(data)

\* str.split(): the words of a token sequence, white space dropped.
Words(s) == SelectSeq(s, LAMBDA c : c \notin {NL, SP})

RECURSIVE JoinSp(_)
JoinSp(ws) ==
    IF Len(ws) = 0 THEN <<>>
    ELSE IF Len(ws) = 1 THEN <<ws[1]>>
    ELSE <<ws[1], SP>> \o JoinSp(Tail(ws))

\* LogProcessor.process used as a stage (any object with process(data)).
LogProcessorProcess(data) ==
    IF ~IsStr(data) THEN Raise
    ELSE LET parts == Words(data.s) IN
         IF Len(parts) = 0
         THEN Return(Str(<<"[INFO]", SP, "Empty", SP, "log", SP, "entry">>))
         ELSE LET label == IF parts[1] = "ERROR:" THEN "[ALERT]" ELSE "[INFO]"
                  level == IF parts[1] = "ERROR:" THEN "ERROR" ELSE "INFO"
              IN Return(Str(<<label, SP, level, SP, "level", SP, "detected:", SP>>
                            \o JoinSp(Tail(parts))))

StageKinds == {"InputStage", "TransformStage", "OutputStage", "LogProcessor"}

StageProcess(stage, data) ==
    CASE stage = "InputStage" -> InputStageProcess(data)
      [] stage = "TransformStage" -> TransformStageProcess(data)
      [] stage = "OutputStage" -> OutputStageProcess(data)
      [] stage = "LogProcessor" -> LogProcessorProcess(data)

\* ---------------------------------------------------------------- pipeline
\* ProcessingPipeline.__init__: the statistics of a new pipeline
InitStats == [total_executions |-> 0, successful_executions |-> 0,
              failed_executions |-> 0, error_recoveries |-> 0]

\* Adapter constructors: stages = [InputStage(), TransformStage(), OutputStage()]
DefaultStages == <<"InputStage", "TransformStage", "OutputStage">>

\* Mutant: the loop stops one stage early.
RECURSIVE RunStages_short(_, _, _, _)
RunStages_short(ss, i, result, trace) ==
    IF i >= Len(ss) THEN [ok |-> TRUE, v |-> result, trace |-> trace]
    ELSE LET r == StageProcess(ss[i], result)
             tr == Append(trace, [idx |-> i, stage |-> ss[i], in |-> result])
         IN IF r.ok THEN RunStages_short(ss, i + 1, r.v, tr)
            ELSE [ok |-> FALSE, v |-> result, trace |-> tr]

\* The for loop of execute, from stage i on, with the invocations it makes;
\* when a stage raises, v is the value of result at that moment.
RECURSIVE RunStages(_, _, _, _)
RunStages(ss, i, result, trace) ==
    IF i > Len(ss) THEN [ok |-> TRUE, v |-> result, trace |-> trace]
    ELSE LET r == StageProcess(ss[i], result)
             tr == Append(trace, [idx |-> i, stage |-> ss[i], in |-> result])
         IN IF r.ok THEN RunStages(ss, i + 1, r.v, tr)
            ELSE [ok |-> FALSE, v |-> result, trace |-> tr]

\* Mutant: the except branch returns result, the partial value.
execute_return_partial(st, data, r) ==
    IF r.ok
    THEN [stats |-> [st EXCEPT !.total_executions = @ + 1,
                               !.successful_executions = @ + 1],
          ret |-> r.v, ok |-> TRUE, raised |-> FALSE, in |-> data,
          trace |-> r.trace]
    ELSE [stats |-> [st EXCEPT !.total_executions = @ + 1,
                               !.failed_executions = @ + 1],
          ret |-> r.v, ok |-> FALSE, raised |-> FALSE, in |-> data,
          trace |-> r.trace]

\* Mutant: the except branch does not count the execution in total_executions.
execute_return_uncounted(st, data, r) ==
    IF r.ok
    THEN [stats |-> [st EXCEPT !.total_executions = @ + 1,
                               !.successful_executions = @ + 1],
          ret |-> r.v, ok |-> TRUE, raised |-> FALSE, in |-> data,
          trace |-> r.trace]
    ELSE [stats |-> [st EXCEPT !.failed_executions = @ + 1],
          ret |-> data, ok |-> FALSE, raised |-> FALSE, in |-> data,
          trace |-> r.trace]

\* The end of execute, r being the outcome of its for loop: the statistics
\* and the value returned.  ok: no stage raised; raised: an exception leaves
\* execute.
execute_return(st, data, r) ==
    IF r.ok
    THEN [stats |-> [st EXCEPT !.total_executions = @ + 1,
                               !.successful_executions = @ + 1],
          ret |-> r.v, ok |-> TRUE, raised |-> FALSE, in |-> data,
          trace |-> r.trace]
    ELSE [stats |-> [st EXCEPT !.total_executions = @ + 1,
                               !.failed_executions = @ + 1],
          ret |-> data, ok |-> FALSE, raised |-> FALSE, in |-> data,
          trace |-> r.trace]

\* ProcessingPipeline.execute on a pipeline with statistics st and stages ss
execute(st, ss, data) ==
    execute_return(st, data, RunStages(ss, 1, data, <<>>))

\* success_rate is a float in the code; here it is the exact fraction num/den.
Ratio(n, d) == [num |-> n, den |-> d]

\* Mutant: the rate is computed from failed_executions.
get_stats_failed(pid, st) ==
    LET total == st.total_executions
        efficiency == IF total > 0
                      THEN Ratio(st.failed_executions * 100, total)
                      ELSE Ratio(0, 1)
    IN [t |-> "stats", pipeline_id |-> pid, total_executions |-> total,
        success_rate |-> efficiency, error_recoveries |-> st.error_recoveries]

\* ProcessingPipeline.get_stats
get_stats(pid, st) ==
    LET total == st.total_executions
        efficiency == IF total > 0
                      THEN Ratio(st.successful_executions * 100, total)
                      ELSE Ratio(0, 1)
    IN [t |-> "stats", pipeline_id |-> pid, total_executions |-> total,
        success_rate |-> efficiency, error_recoveries |-> st.error_recoveries]

\* ---------------------------------------------------------------- adapters
\* The except branch of an adapter's process: count a recovery, return neutral.
\* Mutant: the except branch does not count the recovery.
Recovered_uncounted(st, neutral, runs) ==
    [stats |-> st,
     ret |-> neutral, decode_failed |-> TRUE, raised |-> FALSE, runs |-> runs]

\* runs: the runs of execute that the call made before the exception.
Recovered(st, neutral, runs) ==
    [stats |-> [st EXCEPT !.error_recoveries = @ + 1],
     ret |-> neutral, decode_failed |-> TRUE, raised |-> FALSE, runs |-> runs]

\* One run of execute, as its caller sees it.
Run(e) ==
    [in |-> e.in, ret |-> e.ret, ok |-> e.ok, raised |-> e.raised,
     trace |-> e.trace]

\* The try branch of an adapter's process, returning what execute returned.
Processed(e) ==
    [stats |-> e.stats, ret |-> e.ret, decode_failed |-> FALSE,
     raised |-> FALSE, runs |-> <<Run(e)>>]

\* An adapter's process after self.execute returned e, with nothing else to
\* decode.
Guarded(e, neutral) ==
    IF e.raised THEN Recovered(e.stats, neutral, <<Run(e)>>) ELSE Processed(e)

\* JSONAdapter.process after self.execute(data) returned e, for a dict;
\* "..." + unit raises TypeError unless unit is a str
JSONAdapter_summary(e) ==
    IF e.raised THEN Recovered(e.stats, Dict(EmptyMap), <<Run(e)>>)
    ELSE IF IsDict(e.ret) /\ "value" \in DOMAIN e.ret.d
    THEN IF IsStr(Get(e.ret, "unit", Str(<<"C">>))) THEN Processed(e)
         ELSE Recovered(e.stats, Dict(EmptyMap), <<Run(e)>>)
    ELSE Processed(e)

\* JSONAdapter.process
JSONAdapter_process(st, ss, data) ==
    IF IsDict(data)
    THEN JSONAdapter_summary(execute(st, ss, data))
    ELSE Guarded(execute(st, ss, data), Dict(EmptyMap))

\* str.split('\n'): cur is the piece being read
RECURSIVE Split(_, _)
Split(s, cur) ==
    IF Len(s) = 0 THEN <<Str(cur)>>
    ELSE IF Head(s) = NL THEN <<Str(cur)>> \o Split(Tail(s), <<>>)
    ELSE Split(Tail(s), Append(cur, Head(s)))

\* lines[1:] raises unless lines is a sequence
Sliceable(v) == v.t \in {"list", "str"}

\* Mutant: no try/except around the body, the exception leaves process.
CSVAdapter_count_uncaught(lines, e) ==
    IF ~e.raised /\ Sliceable(lines) THEN Processed(e)
    ELSE [stats |-> e.stats, ret |-> None, decode_failed |-> TRUE,
          raised |-> TRUE, runs |-> <<Run(e)>>]

\* CSVAdapter.process after self.execute(lines) returned e
CSVAdapter_count(lines, e) ==
    IF ~e.raised /\ Sliceable(lines) THEN Processed(e)
    ELSE Recovered(e.stats, Str(<<>>), <<Run(e)>>)

\* The lines CSVAdapter.process works on
Lines(data) == IF IsStr(data) THEN List(Split(data.s, <<>>)) ELSE data

\* CSVAdapter.process
CSVAdapter_process(st, ss, data) ==
    CSVAdapter_count(Lines(data), execute(st, ss, Lines(data)))

\* len(readings) raises unless readings is sized
Sized(v) == v.t \in {"list", "str", "dict"}

PyLen(v) == CASE v.t = "list" -> Len(v.l)
              [] v.t = "str" -> Len(v.s)
              [] v.t = "dict" -> Cardinality(DOMAIN v.d)

\* sum(readings) raises unless every element it iterates over is a number
Summable(v) ==
    CASE v.t = "list" -> \A i \in 1..Len(v.l) : v.l[i].t \in {"num", "bool"}
      [] v.t = "str" -> Len(v.s) = 0
      [] v.t = "dict" -> DOMAIN v.d = {}

\* len(readings) and sum(readings) / count go through
Aggregates(readings) ==
    /\ Sized(readings)
    /\ PyLen(readings) > 0 => Summable(readings)

\* StreamAdapter.process
StreamAdapter_process(st, ss, data) ==
    IF IsDict(data)
    THEN IF Aggregates(Get(data, "readings", List(<<>>)))
         THEN Guarded(execute(st, ss, data), Dict(EmptyMap))
         ELSE Recovered(st, Dict(EmptyMap), <<>>)
    ELSE Guarded(execute(st, ss, data), Dict(EmptyMap))

\* pipeline.process(data), dispatched on the class of the pipeline
process(class, st, ss, data) ==
    CASE class = "JSONAdapter" -> JSONAdapter_process(st, ss, data)
      [] class = "CSVAdapter" -> CSVAdapter_process(st, ss, data)
      [] class = "StreamAdapter" -> StreamAdapter_process(st, ss, data)

\* ----------------------------------------------------------------- manager
\* The pipeline objects of a run: one adapter of each class.  Two of them
\* carry the same pipeline_id, so that register_pipeline can overwrite.
Pipelines == {"J", "C", "S"}

ClassOf == [J |-> "JSONAdapter", C |-> "CSVAdapter", S |-> "StreamAdapter"]

pipeline_id == [J |-> "A", C |-> "B", S |-> "A"]

\* Identifiers a caller may name; no pipeline object carries "M".
Ids == {"A", "B", "M"}

\* One call of process (or execute) on a pipeline object, with its outcome.
Invocation(pipeline, input, p) ==
    [pipeline |-> pipeline, in |-> input, out |-> p.ret,
     decode_failed |-> p.decode_failed, raised |-> p.raised, runs |-> p.runs]

\* The state of execute_chain: statistics, result and the invocations made.
ChainState(st, result, raised, calls) ==
    [stats |-> st, ret |-> result, raised |-> raised, calls |-> calls]

\* Mutant: process is called but its value is not assigned to result.
Chained_dropped(c, pipeline, p) ==
    ChainState([c.stats EXCEPT ![pipeline] = p.stats],
               IF p.raised THEN None ELSE c.ret, p.raised,
               Append(c.calls, Invocation(pipeline, c.ret, p)))

\* result = pipeline.process(result), p being what process did
Chained(c, pipeline, p) ==
    ChainState([c.stats EXCEPT ![pipeline] = p.stats],
               IF p.raised THEN None ELSE p.ret, p.raised,
               Append(c.calls, Invocation(pipeline, c.ret, p)))

\* Mutant: the loop ends at the first id that is not registered.
RECURSIVE execute_chain_break(_, _, _, _, _)
execute_chain_break(reg, stgs, chain, i, c) ==
    IF i > Len(chain) \/ c.raised THEN c
    ELSE IF chain[i] \in DOMAIN reg
    THEN execute_chain_break(reg, stgs, chain, i + 1,
            Chained(c, reg[chain[i]],
                    process(ClassOf[reg[chain[i]]], c.stats[reg[chain[i]]],
                            stgs[reg[chain[i]]], c.ret)))
    ELSE c

\* NexusManager.execute_chain over registry reg, from position i of chain on,
\* c being its state there; an exception out of process ends it.
RECURSIVE execute_chain(_, _, _, _, _)
execute_chain(reg, stgs, chain, i, c) ==
    IF i > Len(chain) \/ c.raised THEN c
    ELSE IF chain[i] \in DOMAIN reg
    THEN execute_chain(reg, stgs, chain, i + 1,
            Chained(c, reg[chain[i]],
                    process(ClassOf[reg[chain[i]]], c.stats[reg[chain[i]]],
                            stgs[reg[chain[i]]], c.ret)))
    ELSE execute_chain(reg, stgs, chain, i + 1, c)

\* ------------------------------------------------------------------- state
\* stages, execution_stats: the fields of each pipeline object;
\* pipelines, pipeline_chain: the fields of the manager;
\* last: the latest call, its outcome and the statistics before it;
\* executes: how often execute has run on each pipeline; ncalls: calls made.
VARIABLES stages, execution_stats, pipelines, pipeline_chain, last, executes,
          ncalls

vars == <<stages, execution_stats, pipelines, pipeline_chain, last, executes,
          ncalls>>

\* The values callers pass in.
Reading == Dict([value |-> Num(23), unit |-> Str(<<"C">>)])
BadUnit == Dict([value |-> Num(23), unit |-> Num(5)])
BadReadings == Dict([readings |-> Num(5)])
Tagged == Dict([readings |-> List(<<Num(22), Num(23)>>),
                _metadata |-> Str(<<"old">>)])
CsvText == Str(<<"user", NL, "ERROR:", SP, "login", NL>>)

Inputs == {None, Reading, BadUnit, BadReadings, Tagged, CsvText}

\* Chain plans a caller may set: identifiers in any order, none repeated.
ChainPlans ==
    {c \in UNION {[1..n -> Ids] : n \in 0..MaxChain} :
        \A i, j \in 1..Len(c) : i # j => c[i] # c[j]}

NoCall == [op |-> "none", target |-> "-", input |-> None, raised |-> FALSE,
           ret |-> None, calls |-> <<>>, pre |-> [o \in Pipelines |-> InitStats]]

Call(op, target, input, raised, ret, calls) ==
    [op |-> op, target |-> target, input |-> input, raised |-> raised,
     ret |-> ret, calls |-> calls, pre |-> execution_stats]

Init ==
    /\ stages = [o \in Pipelines |-> DefaultStages]
    /\ execution_stats = [o \in Pipelines |-> InitStats]
    /\ pipelines = EmptyMap
    /\ pipeline_chain = <<>>
    /\ last = NoCall
    /\ executes = [o \in Pipelines |-> 0]
    /\ ncalls = 0

RECURSIVE SumOver(_, _)
SumOver(f, S) ==
    IF S = {} THEN 0
    ELSE LET x == CHOOSE y \in S : TRUE IN f[x] + SumOver(f, S \ {x})

TotalStages == Len(stages["J"]) + Len(stages["C"]) + Len(stages["S"])

\* Calls that process data are explored up to MaxCalls of them.
CanCall == ncalls < MaxCalls

\* The runs of execute that a sequence of invocations made on pipeline o.
Executed(calls, o) ==
    SumOver([i \in 1..Len(calls) |->
                IF calls[i].pipeline = o THEN Len(calls[i].runs) ELSE 0],
            1..Len(calls))

Counted(calls) ==
    /\ executes' = [o \in Pipelines |-> executes[o] + Executed(calls, o)]
    /\ ncalls' = ncalls + 1

\* pipeline.add_stage(stage)
AddStage(o, stage) ==
    /\ TotalStages < MaxStages
    /\ stages' = [stages EXCEPT ![o] = Append(@, stage)]
    /\ last' = Call("add_stage", o, None, FALSE, None, <<>>)
    /\ UNCHANGED <<execution_stats, pipelines, pipeline_chain, executes, ncalls>>

\* A call op on pipeline o returned (or raised): p is what it did.
Applied(op, target, o, data, p) ==
    /\ execution_stats' = [execution_stats EXCEPT ![o] = p.stats]
    /\ last' = Call(op, target, data, p.raised, p.ret, <<Invocation(o, data, p)>>)
    /\ Counted(last'.calls)

\* execute seen as a call on the pipeline: no decoding around it.
Direct(e) ==
    [stats |-> e.stats, ret |-> e.ret, decode_failed |-> FALSE,
     raised |-> e.raised, runs |-> <<Run(e)>>]

\* pipeline.execute(data)
Execute(o, data) ==
    /\ CanCall
    /\ Applied("execute", o, o, data,
               Direct(execute(execution_stats[o], stages[o], data)))
    /\ UNCHANGED <<stages, pipelines, pipeline_chain>>

\* pipeline.process(data)
Process(o, data) ==
    /\ CanCall
    /\ Applied("process", o, o, data,
               process(ClassOf[o], execution_stats[o], stages[o], data))
    /\ UNCHANGED <<stages, pipelines, pipeline_chain>>

\* pipeline.get_stats()
GetStats(o) ==
    /\ last' = Call("get_stats", o, None, FALSE,
                    get_stats(pipeline_id[o], execution_stats[o]), <<>>)
    /\ UNCHANGED <<stages, execution_stats, pipelines, pipeline_chain,
                   executes, ncalls>>

\* manager.register_pipeline(pipeline)
RegisterPipeline(o) ==
    /\ pipelines' = SetItem(pipelines, pipeline_id[o], o)
    /\ last' = Call("register_pipeline", o, None, FALSE, None, <<>>)
    /\ UNCHANGED <<stages, execution_stats, pipeline_chain, executes, ncalls>>

\* manager.chain_pipelines(pipeline_ids)
ChainPipelines(ids) ==
    /\ pipeline_chain' = ids
    /\ last' = Call("chain_pipelines", "-", None, FALSE, None, <<>>)
    /\ UNCHANGED <<stages, execution_stats, pipelines, executes, ncalls>>

\* execute_chain returned (or raised): c is its final state.
ChainApplied(data, c) ==
    /\ execution_stats' = c.stats
    /\ last' = Call("execute_chain", "-", data, c.raised, c.ret, c.calls)
    /\ Counted(last'.calls)

\* manager.execute_chain(data)
ExecuteChain(data) ==
    /\ CanCall
    /\ ChainApplied(data, execute_chain(pipelines, stages, pipeline_chain, 1,
                                        ChainState(execution_stats, data, FALSE, <<>>)))
    /\ UNCHANGED <<stages, pipelines, pipeline_chain>>

\* raise ValueError("Pipeline not found")
NotFound(pid, data) ==
    /\ last' = Call("process_polymorphic", pid, data, TRUE, None, <<>>)
    /\ UNCHANGED execution_stats
    /\ Counted(last'.calls)

\* Mutant: an id that is not registered gives None instead of raising.
ProcessPolymorphic_silent(pid, data) ==
    /\ CanCall
    /\ IF pid \notin DOMAIN pipelines
       THEN /\ last' = Call("process_polymorphic", pid, data, FALSE, None, <<>>)
            /\ UNCHANGED execution_stats
            /\ Counted(last'.calls)
       ELSE Applied("process_polymorphic", pid, pipelines[pid], data,
                    process(ClassOf[pipelines[pid]], execution_stats[pipelines[pid]],
                            stages[pipelines[pid]], data))
    /\ UNCHANGED <<stages, pipelines, pipeline_chain>>

\* manager.process_polymorphic(pipeline_id, data)
ProcessPolymorphic(pid, data) ==
    /\ CanCall
    /\ IF pid \notin DOMAIN pipelines
       THEN NotFound(pid, data)
       ELSE Applied("process_polymorphic", pid, pipelines[pid], data,
                    process(ClassOf[pipelines[pid]], execution_stats[pipelines[pid]],
                            stages[pipelines[pid]], data))
    /\ UNCHANGED <<stages, pipelines, pipeline_chain>>

\* The operations on one pipeline object.
NextPipeline ==
    \/ \E o \in Pipelines, stage \in StageKinds : AddStage(o, stage)
    \/ \E o \in Pipelines, data \in Inputs : Execute(o, data)
    \/ \E o \in Pipelines, data \in Inputs : Process(o, data)
    \/ \E o \in Pipelines : GetStats(o)

\* The operations of the manager.
NextManager ==
    \/ \E o \in Pipelines : RegisterPipeline(o)
    \/ \E ids \in ChainPlans : ChainPipelines(ids)
    \/ \E data \in Inputs : ExecuteChain(data)
    \/ \E pid \in Ids, data \in Inputs : ProcessPolymorphic(pid, data)

Next == NextPipeline \/ NextManager

\* Every operation, in any order.
Spec == Init /\ [][Next]_vars

\* Callers that use pipelines directly, without a manager.
SpecPipeline == Init /\ [][NextPipeline]_vars

\* Callers that go through the manager, with the adapters as constructed.
SpecManager == Init /\ [][NextManager]_vars

\* ProcessingPipeline.__init__(pipeline_id, stages): the stage lists a caller
\* may hand to the constructor of a pipeline class of their own.
StageLists == UNION {[1..n -> StageKinds] : n \in 0..MaxCustom}

\* Pipelines constructed with stage lists of the caller's choice.
InitCustom ==
    /\ stages \in [Pipelines -> StageLists]
    /\ execution_stats = [o \in Pipelines |-> InitStats]
    /\ pipelines = EmptyMap
    /\ pipeline_chain = <<>>
    /\ last = NoCall
    /\ executes = [o \in Pipelines |-> 0]
    /\ ncalls = 0

\* execute, the operation such a pipeline inherits.
NextCustom == \E o \in Pipelines, data \in Inputs : Execute(o, data)

\* Callers that run execute on pipelines with stage lists of their own.
SpecCustom == InitCustom /\ [][NextCustom]_vars

\* ------------------------------------------------------------------ claims
\* The runs of execute made by the latest call, each with its pipeline.
LastRuns ==
    UNION {{[pipeline |-> last.calls[i].pipeline, run |-> last.calls[i].runs[j]] :
               j \in 1..Len(last.calls[i].runs)} : i \in 1..Len(last.calls)}

\* The value that reaches stage n + 1 when no stage up to n raises.
RECURSIVE After(_, _, _)
After(ss, n, data) ==
    IF n = 0 THEN data ELSE StageProcess(ss[n], After(ss, n - 1, data)).v

\* The stages of ss that raise on the value reaching them.
Failing(ss, data) ==
    {k \in 1..Len(ss) : ~StageProcess(ss[k], After(ss, k - 1, data)).ok}

\* The first stage of ss that raises on input data, 0 when none does.
FirstFailure(ss, data) ==
    IF Failing(ss, data) = {} THEN 0
    ELSE CHOOSE k \in Failing(ss, data) : \A j \in Failing(ss, data) : k <= j

\* C1: on a pipeline with stages [InputStage, TransformStage, OutputStage],
\* execute(None) adds 1 to failed_executions, adds 1 to error_recoveries and
\* returns None.
C1_ExecuteNoneCountsRecovery ==
    (last.op = "execute" /\ last.input = None
        /\ stages[last.target] = DefaultStages) =>
    /\ execution_stats[last.target].failed_executions
          = last.pre[last.target].failed_executions + 1
    /\ execution_stats[last.target].error_recoveries
          = last.pre[last.target].error_recoveries + 1
    /\ last.ret = None

\* C2: when stage k is the first stage to raise, execute invokes stages 1..k
\* only and returns the input it was given, not the partial result.
C2_FailFast ==
    \A r \in LastRuns :
        LET ss == stages[r.pipeline]
            k == FirstFailure(ss, r.run.in)
        IN k > 0 =>
            /\ ~r.run.ok
            /\ Len(r.run.trace) = k
            /\ \A i \in 1..k : r.run.trace[i].idx = i
            /\ r.run.ret = r.run.in
            /\ ~r.run.raised

\* A run that failed at a later stage, after an earlier stage changed the value.
C2_Witness ==
    /\ last.op = "execute"
    /\ \E r \in LastRuns :
        /\ ~r.run.ok
        /\ Len(r.run.trace) > 1
        /\ r.run.trace[Len(r.run.trace)].in # r.run.in
        /\ last.ret = r.run.in

\* C3: when no stage raises, execute invokes every stage once, in insertion
\* order, each on the value the stage before it returned, returns the last
\* stage's value and adds 1 to total_executions and to successful_executions.
C3_StagesInOrder ==
    \A r \in LastRuns :
        LET ss == stages[r.pipeline]
            o == r.pipeline
        IN FirstFailure(ss, r.run.in) = 0 =>
            /\ r.run.ok
            /\ Len(r.run.trace) = Len(ss)
            /\ \A i \in 1..Len(ss) :
                  /\ r.run.trace[i].idx = i
                  /\ r.run.trace[i].stage = ss[i]
                  /\ r.run.trace[i].in = After(ss, i - 1, r.run.in)
            /\ r.run.ret = After(ss, Len(ss), r.run.in)
            /\ last.op = "execute" =>
                  /\ last.ret = r.run.ret
                  /\ execution_stats[o].total_executions
                        = last.pre[o].total_executions + 1
                  /\ execution_stats[o].successful_executions
                        = last.pre[o].successful_executions + 1

\* A successful execute on a pipeline with an appended stage that changed the
\* value.
C3_Witness ==
    /\ last.op = "execute"
    /\ Len(stages[last.target]) > Len(DefaultStages)
    /\ \E r \in LastRuns :
        /\ r.run.ok
        /\ r.run.trace[Len(r.run.trace)].in # r.run.ret
        /\ r.run.ret # r.run.in

\* The latest call was execute on a pipeline with the constructor's stages, or
\* process on (or dispatch to) a JSONAdapter with them, given a mapping.
C4_Case ==
    /\ last.op \in {"execute", "process", "process_polymorphic"}
    /\ Len(last.calls) = 1
    /\ IsDict(last.input)
    /\ stages[last.calls[1].pipeline] = DefaultStages
    /\ last.op = "execute" \/ ClassOf[last.calls[1].pipeline] = "JSONAdapter"

KeysKept(input, ret) ==
    \A k \in DOMAIN input.d : k \in DOMAIN ret.d /\ ret.d[k] = input.d[k]

UnitNotStr(v) ==
    /\ "value" \in DOMAIN v.d
    /\ "unit" \in DOMAIN v.d
    /\ ~IsStr(v.d["unit"])

C5_Case ==
    /\ last.op = "execute_chain"
    /\ Len(pipeline_chain) = 3
    /\ pipeline_chain[1] \in DOMAIN pipelines
    /\ pipeline_chain[2] \notin DOMAIN pipelines
    /\ pipeline_chain[3] \in DOMAIN pipelines

\* C5: execute_chain over [A, MISSING, B] returns the value and leaves the
\* statistics that execute_chain over [A, B] gives from the same state on the
\* same input, and raises nothing.
C5_MissingIdSkipped ==
    C5_Case =>
    LET c == execute_chain(pipelines, stages,
                           <<pipeline_chain[1], pipeline_chain[3]>>, 1,
                           ChainState(last.pre, last.input, FALSE, <<>>))
    IN /\ last.ret = c.ret
       /\ execution_stats = c.stats
       /\ last.calls = c.calls
       /\ ~last.raised

\* Both registered pipelines of [A, MISSING, B] have run.
C5_Witness ==
    /\ C5_Case
    /\ Len(last.calls) = 2
    /\ last.calls[2].pipeline = pipelines[pipeline_chain[3]]
    /\ execution_stats # last.pre

\* C6: process_polymorphic with an id that is not registered raises, invokes
\* no pipeline and changes neither the registry, the chain plan nor any
\* pipeline's statistics or stages.
C6_DispatchNotFound ==
    [][(last'.op = "process_polymorphic" /\ ncalls' = ncalls + 1
           /\ last'.target \notin DOMAIN pipelines) =>
       /\ last'.raised
       /\ last'.calls = <<>>
       /\ UNCHANGED <<pipelines, pipeline_chain, execution_stats, stages,
                      executes>>]_vars

\* A dispatch to a missing id, made while another pipeline is registered and
\* has statistics.
C6_Witness ==
    /\ last.op = "process_polymorphic"
    /\ last.target \notin DOMAIN pipelines
    /\ last.raised
    /\ DOMAIN pipelines # {}
    /\ \E o \in Pipelines : execution_stats[o].total_executions > 0

C8_Counters(o) ==
    /\ execution_stats[o].total_executions \in Nat
    /\ execution_stats[o].successful_executions \in Nat
    /\ execution_stats[o].failed_executions \in Nat
    /\ execution_stats[o].error_recoveries \in Nat
    /\ execution_stats[o].total_executions
          = execution_stats[o].successful_executions
            + execution_stats[o].failed_executions
    /\ execution_stats[o].total_executions = executes[o]

C8_Step(o) ==
    LET n == executes'[o] - executes[o]
        a == execution_stats[o]
        b == execution_stats'[o]
    IN /\ b.total_executions = a.total_executions + n
       /\ b.successful_executions >= a.successful_executions
       /\ b.failed_executions >= a.failed_executions
       /\ (b.successful_executions - a.successful_executions)
             + (b.failed_executions - a.failed_executions) = n
       /\ b.error_recoveries >= a.error_recoveries

\* C8: every counter is a natural number and never decreases; every run of
\* execute adds 1 to total_executions and 1 to exactly one of
\* successful_executions and failed_executions, so that total = successful
\* + failed = the number of runs of execute.
C8_StatsCount ==
    /\ [](\A o \in Pipelines : C8_Counters(o))
    /\ [][\A o \in Pipelines : C8_Step(o)]_vars

\* A pipeline that has run execute twice, once with success and once without.
C8_Witness ==
    \E o \in Pipelines :
        /\ executes[o] = 2
        /\ execution_stats[o].successful_executions = 1
        /\ execution_stats[o].failed_executions = 1

\* The value an adapter class returns from its except branch.
Neutral(class) == IF class = "CSVAdapter" THEN Str(<<>>) ELSE Dict(EmptyMap)

\* C9: a call of an adapter's process that fails in its own decoding returns
\* the adapter's neutral value and adds 1 to error_recoveries; a call that
\* does not returns what its one run of execute returned and leaves
\* error_recoveries as it was.
C9_DecodeFailureRecovered ==
    \A i \in 1..Len(last.calls) :
        LET c == last.calls[i]
            o == c.pipeline
        IN last.op \in {"process", "process_polymorphic", "execute_chain"} =>
            IF c.decode_failed
            THEN /\ c.out = Neutral(ClassOf[o])
                 /\ ~c.raised
                 /\ execution_stats[o].error_recoveries
                       = last.pre[o].error_recoveries + 1
            ELSE /\ Len(c.runs) = 1
                 /\ c.out = c.runs[1].ret
                 /\ execution_stats[o].error_recoveries
                       = last.pre[o].error_recoveries

\* Each of the three adapters has recovered from a decoding failure, the
\* latest in this call.
C9_Witness ==
    /\ \A o \in Pipelines : execution_stats[o].error_recoveries = 1
    /\ \E i \in 1..Len(last.calls) : last.calls[i].decode_failed

\* The success_rate that get_stats is to report for statistics st.
C10_Rate(st, r) ==
    /\ r.den > 0
    /\ st.total_executions = 0 => r.num = 0
    /\ st.total_executions > 0 =>
          r.num * st.total_executions = st.successful_executions * 100 * r.den
    /\ 0 <= r.num
    /\ r.num <= 100 * r.den

\* C10: get_stats changes nothing and reports success_rate = 0 when
\* total_executions = 0, successful / total * 100 otherwise, always within
\* 0..100.
C10_GetStatsRate ==
    [][last'.op = "get_stats" =>
        /\ UNCHANGED <<stages, execution_stats, pipelines, pipeline_chain,
                       executes, ncalls>>
        /\ C10_Rate(execution_stats[last'.target], last'.ret.success_rate)
        /\ last'.ret.total_executions
              = execution_stats[last'.target].total_executions
        /\ last'.ret.error_recoveries
              = execution_stats[last'.target].error_recoveries]_vars

\* get_stats on a pipeline with one success in two executions.
C10_Witness ==
    /\ last.op = "get_stats"
    /\ execution_stats[last.target].total_executions = 2
    /\ execution_stats[last.target].successful_executions = 1
    /\ last.ret.success_rate = Ratio(100, 2)

\* C11: TransformStage.process raises when its input is None, so that an
\* execute whose TransformStage receives None (no InputStage before it in the
\* stage list) is counted in failed_executions and not in
\* successful_executions.
C11_TransformRejectsNone ==
    \A r \in LastRuns :
        (\E i \in 1..Len(r.run.trace) :
            /\ r.run.trace[i].stage = "TransformStage"
            /\ r.run.trace[i].in = None) =>
        /\ ~r.run.ok
        /\ execution_stats[r.pipeline].failed_executions
              = last.pre[r.pipeline].failed_executions + 1
        /\ execution_stats[r.pipeline].successful_executions
              = last.pre[r.pipeline].successful_executions

\* The ids of the chain plan that are registered, in the plan's order.
RegisteredIds == SelectSeq(pipeline_chain, LAMBDA pid : pid \in DOMAIN pipelines)

\* C12: execute_chain calls process on the registered pipelines of the chain
\* plan from left to right, the first on the caller's data, each later one on
\* the value the one before it returned, and returns the last one's value;
\* with no registered id in the plan it returns the data and touches no
\* statistics.
C12_ChainLeftToRight ==
    last.op = "execute_chain" =>
    LET n == Len(RegisteredIds) IN
    /\ ~last.raised
    /\ Len(last.calls) = n
    /\ \A i \in 1..n :
          /\ last.calls[i].pipeline = pipelines[RegisteredIds[i]]
          /\ last.calls[i].in
                = IF i = 1 THEN last.input ELSE last.calls[i - 1].out
          /\ last.calls[i].out
                = process(ClassOf[last.calls[i].pipeline],
                          last.pre[last.calls[i].pipeline],
                          stages[last.calls[i].pipeline],
                          last.calls[i].in).ret
    /\ last.ret = IF n = 0 THEN last.input ELSE last.calls[n].out
    /\ n = 0 => execution_stats = last.pre

\* A chain with a missing id between two registered ones, where the second
\* pipeline received a value that the first one had changed and changed it
\* again.
C12_Witness ==
    /\ last.op = "execute_chain"
    /\ Len(pipeline_chain) = 3
    /\ Len(last.calls) = 2
    /\ last.calls[2].in = last.calls[1].out
    /\ last.calls[2].in # last.input
    /\ last.calls[2].out # last.calls[2].in
    /\ last.ret = last.calls[2].out

====
